---------------------------- MODULE Spec2Model ----------------------------
(***************************************************************************)
(* Model of src/live_dashboard.py: the telemetry simulator loop            *)
(* generate_stream_data together with the rolling window                    *)
(* st.session_state.df2, the business accumulators                          *)
(* st.session_state.viewers / revenue_lost and the alert widgets.           *)
(*                                                                         *)
(* Units.  latency is kept in integers: the gauss sample and the chaos      *)
(* penalty in thousandths of a millisecond, the stored latency_ms (after    *)
(* round(.., 2)) in hundredths.  revenue_lost is kept in cents (the code    *)
(* adds drop_off * 0.05 dollars, i.e. 5 cents per lost viewer).  Durations  *)
(* (SEGMENT_DURATION, AD_BREAK_DURATION, the clock) are whole seconds.      *)
(*                                                                         *)
(* Random source.  Python's module-level generator is a deterministic       *)
(* stream fixed by its seed.  The stream is modelled as a cyclic tape of    *)
(* TapeLen raw outputs; Init ranges over every tape, each random call       *)
(* reads the raw output under the head and advances the head by one.        *)
(*                                                                         *)
(* Scope.  One execution of the script in one session is modelled, from    *)
(* the session-state defaults to the loop; the clock advances by the        *)
(* time.sleep of each iteration.  The metric and chart widgets only render  *)
(* values held in the variables below and are left out.                     *)
(***************************************************************************)
EXTENDS Integers, Sequences, FiniteSets, TLC

VARIABLES
    df2,                 \* st.session_state.df2: the rows of the window
    viewers,             \* st.session_state.viewers
    revenue_lost,        \* st.session_state.revenue_lost, in cents
    sequence_number,     \* local of generate_stream_data
    in_ad_break,         \* local of generate_stream_data
    ad_break_remaining,  \* local of generate_stream_data
    now,                 \* the wall clock read by datetime.now, in seconds
    rng_pos,             \* head of the random stream
    health_metric,       \* what health_metric last rendered
    alert_placeholder,   \* what alert_placeholder last rendered
    rng_tape,            \* the random stream fixed by the seed
    other,               \* a second, independent session (used by SpecPair)
    chaos_mode,          \* the value the script gives CHAOS_MODE
    drop_offs            \* history: every value drop_off has been given

vars == <<df2, viewers, revenue_lost, sequence_number, in_ad_break,
          ad_break_remaining, now, rng_pos, health_metric, alert_placeholder,
          rng_tape, other, chaos_mode, drop_offs>>

----------------------------------------------------------------------------
(* Bounds of the model *)

MaxTicks == 52

TapeLen == 6

MaxPairTicks == 3

MaxSkew == 1

MaxChaosTicks == 18

\* raw outputs of the random stream
Raw == 0..3

----------------------------------------------------------------------------
(* Program constants *)

STREAM_ID == "nflx_live_event_superbowl_v1"

SEGMENT_DURATION == 2

AD_BREAK_DURATION == 30

\* the script sets CHAOS_MODE = True; SpecChaos also runs it set to False
CHAOS_MODE == chaos_mode

WINDOW_CAPACITY == 50

BASELINE_VIEWERS == 10000

LOW_WATER_MARK == 9000

\* 1000 ms, in hundredths
BUFFERING_THRESHOLD == 100000

\* 2000 ms, in thousandths
CHAOS_PENALTY == 2000000

\* 0.05 dollars per lost viewer, in cents
REVENUE_PER_VIEWER == 5

DROP_MIN == 50

DROP_MAX == 150

RECOVER_MIN == 5

RECOVER_MAX == 20

TRIGGER_PCT == 10

SIGNAL_FAIL_PCT == 20

LATENCY_CHAOS_PCT == 30

PAYLOAD_DIGITS == 8

----------------------------------------------------------------------------
(* Strings the code inspects character by character are sequences of       *)
(* one-character strings.                                                  *)

HexChars == <<"0","1","2","3","4","5","6","7","8","9","A","B","C","D","E","F">>

PayloadPrefix == <<"0","x","F","C","3","0">>

NullText == <<"n","u","l","l">>

\* Python's None (falsy, like the empty string)
None == <<>>

EventKinds == {"content_playing", "ad_playing", "ad_complete", "scte35_trigger"}

EventChars(e) ==
    CASE e = "content_playing" ->
           <<"c","o","n","t","e","n","t","_","p","l","a","y","i","n","g">>
      [] e = "ad_playing" -> <<"a","d","_","p","l","a","y","i","n","g">>
      [] e = "ad_complete" -> <<"a","d","_","c","o","m","p","l","e","t","e">>
      [] e = "scte35_trigger" ->
           <<"s","c","t","e","3","5","_","t","r","i","g","g","e","r">>

\* Python's `sub in s` on strings
Contains(sub, s) ==
    \E i \in 0..(Len(s) - Len(sub)) :
        \A k \in 1..Len(sub) : s[i + k] = sub[k]

----------------------------------------------------------------------------
(* The random stream *)

Advance(pos, k) == (pos + k) % TapeLen

Draw(pos) == rng_tape[(pos % TapeLen) + 1]

\* random.random(), as a percentage: one sample in each of the bands
\* [0, 0.10), [0.10, 0.20), [0.20, 0.30), [0.30, 1)
RandomPct(r) == IF r = 0 THEN 5 ELSE IF r = 1 THEN 15 ELSE IF r = 2 THEN 25 ELSE 60

\* random.randint(a, b): both ends included
RandInt(a, b, r) == a + ((b - a) * r) \div 3

\* random.choice(seq)
Choice(seq, r) == seq[1 + ((Len(seq) - 1) * r) \div 3]

\* random.gauss(200, 20), in thousandths of a millisecond.  The normal
\* distribution is taken with its full support: besides two samples near the
\* mean, the samples that round to 999.99 and to 1000.00 stand for the tails.
Gauss(r) ==
    IF r = 0 THEN 200000 ELSE IF r = 1 THEN 999994
    ELSE IF r = 2 THEN 999996 ELSE 180004

\* round(x, 2): thousandths to the nearest hundredth (no sample is a tie)
Round2(x) == (x + 5) \div 10

\* datetime.now(timezone.utc).isoformat() parsed back by pd.to_datetime:
\* the instant, in whole seconds
Timestamp(clock) == clock

\* strftime('%H:%M:%S') of an instant
TimeOnly(ts) == <<(ts \div 3600) % 24, (ts \div 60) % 60, ts % 60>>

----------------------------------------------------------------------------
(* generate_scte35_payload_mock: "0xFC30" followed by 8 random hex digits  *)

MockPayload(pos) ==
    PayloadPrefix \o
        [i \in 1..PAYLOAD_DIGITS |-> Choice(HexChars, Draw(pos + i - 1))]

----------------------------------------------------------------------------
(* The raw-event logic of one loop iteration                                *)

\* the break is left one tick late: `< 0` for `<= 0`
AdBreakTick_LateExit(remaining) ==
    LET left == remaining - SEGMENT_DURATION
    IN  [segment_type       |-> "ad",
         event_type         |-> IF left < 0 THEN "ad_complete" ELSE "ad_playing",
         in_ad_break        |-> ~(left < 0),
         ad_break_remaining |-> left]

\* `in_ad_break = False` left out
AdBreakTick_NoExit(remaining) ==
    LET left == remaining - SEGMENT_DURATION
    IN  [segment_type       |-> "ad",
         event_type         |-> IF left <= 0 THEN "ad_complete" ELSE "ad_playing",
         in_ad_break        |-> TRUE,
         ad_break_remaining |-> left]

\* the `if in_ad_break:` branch
AdBreakTick(remaining) ==
    LET left == remaining - SEGMENT_DURATION
    IN  [segment_type       |-> "ad",
         event_type         |-> IF left <= 0 THEN "ad_complete" ELSE "ad_playing",
         in_ad_break        |-> ~(left <= 0),
         ad_break_remaining |-> left]

\* the payload generated outside the trigger test
Scte35Payload_Always(triggered, token, failed) ==
    IF ~failed THEN token ELSE None

\* the payload carried after `scte35_payload = None` at the top of the
\* iteration and the trigger branch
Scte35Payload(triggered, token, failed) ==
    IF triggered /\ ~failed THEN token ELSE None

\* the signal is dropped whatever CHAOS_MODE says
SignalFails_IgnoresMode(chaos, r) == RandomPct(r) < SIGNAL_FAIL_PCT

\* CHAOS_MODE and random.random() < 0.20, on the raw output r
SignalFails(chaos, r) == chaos /\ RandomPct(r) < SIGNAL_FAIL_PCT

\* the countdown also runs while content plays
ContentTick_Decrements(remaining, pos) ==
    LET triggered == RandomPct(Draw(pos)) < TRIGGER_PCT
        token     == MockPayload(Advance(pos, 1))
        failPos   == Advance(pos, 1 + PAYLOAD_DIGITS)
        failed    == SignalFails(CHAOS_MODE, Draw(failPos))
    IN  [segment_type       |-> "content",
         event_type         |-> IF triggered THEN "scte35_trigger"
                                ELSE "content_playing",
         in_ad_break        |-> triggered,
         ad_break_remaining |-> IF triggered THEN AD_BREAK_DURATION
                                ELSE remaining - SEGMENT_DURATION,
         scte35_payload     |-> Scte35Payload(triggered, token, failed),
         rng_pos            |-> IF ~triggered THEN Advance(pos, 1)
                                ELSE IF CHAOS_MODE
                                     THEN Advance(failPos, 1)
                                     ELSE failPos]

\* the `else:` branch: content, or the start of an ad break
ContentTick(remaining, pos) ==
    LET triggered == RandomPct(Draw(pos)) < TRIGGER_PCT
        token     == MockPayload(Advance(pos, 1))
        failPos   == Advance(pos, 1 + PAYLOAD_DIGITS)
        failed    == SignalFails(CHAOS_MODE, Draw(failPos))
    IN  [segment_type       |-> "content",
         event_type         |-> IF triggered THEN "scte35_trigger"
                                ELSE "content_playing",
         in_ad_break        |-> triggered,
         ad_break_remaining |-> IF triggered THEN AD_BREAK_DURATION
                                ELSE remaining,
         scte35_payload     |-> Scte35Payload(triggered, token, failed),
         rng_pos            |-> IF ~triggered THEN Advance(pos, 1)
                                ELSE IF CHAOS_MODE
                                     THEN Advance(failPos, 1)
                                     ELSE failPos]

\* the test of segment_type left out
LatencyRolls_AnySegment(chaos, segment_type) == chaos

\* CHAOS_MODE and segment_type == "ad": whether the latency roll is made
LatencyRolls(chaos, segment_type) == chaos /\ segment_type = "ad"

\* latency_ms = random.gauss(200, 20), plus 2000 under chaos in an ad segment
\* (random.random() is only called when the two tests before it hold)
LatencyMs(segment_type, pos) ==
    LET g     == Gauss(Draw(pos))
        rolls == LatencyRolls(CHAOS_MODE, segment_type)
        chaos == rolls /\ RandomPct(Draw(Advance(pos, 1))) < LATENCY_CHAOS_PCT
    IN  [latency |-> IF chaos THEN g + CHAOS_PENALTY ELSE g,
         rng_pos |-> IF rolls THEN Advance(pos, 2) ELSE Advance(pos, 1)]

\* "scte35_payload": scte35_payload if scte35_payload else "null"
PacketPayload(p) == IF Len(p) > 0 THEN p ELSE NullText

\* the increment left out
NextSequence_Stuck(n) == n

\* sequence_number += 1
NextSequence(n) == n + 1

\* lines 111-150: the state machine step and the packet it emits
Simulate(s) ==
    LET kind == IF s.in_ad_break
                THEN AdBreakTick(s.ad_break_remaining) @@
                     [scte35_payload |-> None, rng_pos |-> s.rng_pos]
                ELSE ContentTick(s.ad_break_remaining, s.rng_pos)
        lat  == LatencyMs(kind.segment_type, kind.rng_pos)
    IN  [in_ad_break        |-> kind.in_ad_break,
         ad_break_remaining |-> kind.ad_break_remaining,
         rng_pos            |-> lat.rng_pos,
         data_packet        |->
             [stream_id      |-> STREAM_ID,
              timestamp      |-> s.now,
              seq_id         |-> s.sequence_number,
              event          |-> kind.event_type,
              scte35_payload |-> PacketPayload(kind.scte35_payload),
              latency_ms     |-> Round2(lat.latency)]]

----------------------------------------------------------------------------
(* Processing of the packet                                                 *)

\* `>` for `>=`
EvictOldest_OffByOne(df) == IF Len(df) > WINDOW_CAPACITY THEN Tail(df) ELSE df

\* iloc[:-1] for iloc[1:]: the newest stored row leaves
EvictOldest_DropsNewest(df) ==
    IF Len(df) >= WINDOW_CAPACITY THEN SubSeq(df, 1, Len(df) - 1) ELSE df

\* if len(df2) >= 50: df2 = df2.iloc[1:]
EvictOldest(df) == IF Len(df) >= WINDOW_CAPACITY THEN Tail(df) ELSE df

\* `>` for `>=`
IsBuffering_Strict(latency_ms, event) ==
    latency_ms > BUFFERING_THRESHOLD /\ event = "ad_playing"

\* (df['latency_ms'] >= 1000) & (df['event'] == 'ad_playing')
IsBuffering(latency_ms, event) ==
    latency_ms >= BUFFERING_THRESHOLD /\ event = "ad_playing"

\* viewers -= drop_off
ChurnViewers(v, drop_off) == v - drop_off

\* a rate of 0.01 for 0.05
ChurnRevenue_WrongRate(rev, drop_off) == rev + drop_off

\* `-=` for `+=`
ChurnRevenue_Refund(rev, drop_off) == rev - drop_off * REVENUE_PER_VIEWER

\* `=` for `+=`
ChurnRevenue_Replaces(rev, drop_off) == drop_off * REVENUE_PER_VIEWER

\* revenue_lost += drop_off * 0.05
ChurnRevenue(rev, drop_off) == rev + drop_off * REVENUE_PER_VIEWER

\* the test against the baseline left out
Recover_Unbounded(v, increment) == v + increment

\* `<=` for `<`
Recover_AtBaseline(v, increment) ==
    IF v <= BASELINE_VIEWERS THEN v + increment ELSE v

\* if viewers < 10000: viewers += random.randint(5, 20)
Recover(v, increment) == IF v < BASELINE_VIEWERS THEN v + increment ELSE v

\* the `if is_buffering.any(): ... else: ...` update of the accumulators
Accumulate(v, rev, is_buffering, pos) ==
    LET drop_off  == RandInt(DROP_MIN, DROP_MAX, Draw(pos))
        increment == RandInt(RECOVER_MIN, RECOVER_MAX, Draw(pos))
    IN  IF is_buffering
        THEN [viewers      |-> ChurnViewers(v, drop_off),
              revenue_lost |-> ChurnRevenue(rev, drop_off),
              drop_off     |-> drop_off,
              rng_pos      |-> Advance(pos, 1)]
        ELSE [viewers      |-> Recover(v, increment),
              revenue_lost |-> rev,
              drop_off     |-> 0,
              rng_pos      |-> IF v < BASELINE_VIEWERS THEN Advance(pos, 1)
                               ELSE pos]

\* if "ad" in event_type: warning("Ad Break Active")
\* else: success("Content Playing")
HealthIndicator(event_type) ==
    IF Contains(<<"a","d">>, EventChars(event_type))
    THEN "Ad Break Active" ELSE "Content Playing"

\* the viewers test ahead of the buffering test
Alert_ViewersFirst(is_buffering, v, drop_off) ==
    IF v < LOW_WATER_MARK THEN [level |-> "warning", drop_off |-> 0]
    ELSE IF is_buffering THEN [level |-> "error", drop_off |-> drop_off]
    ELSE [level |-> "success", drop_off |-> 0]

\* the error / warning / success chain on alert_placeholder
Alert(is_buffering, v, drop_off) ==
    IF is_buffering THEN [level |-> "error", drop_off |-> drop_off]
    ELSE IF v < LOW_WATER_MARK THEN [level |-> "warning", drop_off |-> 0]
    ELSE [level |-> "success", drop_off |-> 0]

\* one iteration of `while True:` on the session s
LoopBody(s) ==
    LET sim == Simulate(s)
        pkt == sim.data_packet
        is_buffering == IsBuffering(pkt.latency_ms, pkt.event)
        row == [stream_id      |-> pkt.stream_id,
                timestamp      |-> Timestamp(pkt.timestamp),
                seq_id         |-> pkt.seq_id,
                event          |-> pkt.event,
                scte35_payload |-> pkt.scte35_payload,
                latency_ms     |-> pkt.latency_ms,
                ad_buffering   |-> is_buffering,
                time_only      |-> TimeOnly(Timestamp(pkt.timestamp))]
        acc == Accumulate(s.viewers, s.revenue_lost, is_buffering, sim.rng_pos)
    IN  [df2                |-> Append(EvictOldest(s.df2), row),
         viewers            |-> acc.viewers,
         revenue_lost       |-> acc.revenue_lost,
         sequence_number    |-> NextSequence(s.sequence_number),
         in_ad_break        |-> sim.in_ad_break,
         ad_break_remaining |-> sim.ad_break_remaining,
         now                |-> s.now + SEGMENT_DURATION,
         rng_pos            |-> acc.rng_pos,
         health_metric      |-> HealthIndicator(pkt.event),
         alert_placeholder  |-> Alert(is_buffering, acc.viewers, acc.drop_off),
         drop_offs          |-> IF is_buffering
                                THEN Append(s.drop_offs, acc.drop_off)
                                ELSE s.drop_offs]

----------------------------------------------------------------------------
(* Sessions                                                                 *)

\* the session state after the script's set-up, started at wall-clock `start`
NewSession(start) ==
    [df2                |-> <<>>,
     viewers            |-> BASELINE_VIEWERS,
     revenue_lost       |-> 0,
     sequence_number    |-> 0,
     in_ad_break        |-> FALSE,
     ad_break_remaining |-> 0,
     now                |-> start,
     rng_pos            |-> 0,
     health_metric      |-> "empty",
     alert_placeholder  |-> [level |-> "empty", drop_off |-> 0],
     drop_offs          |-> <<>>]

Session ==
    [df2                |-> df2,
     viewers            |-> viewers,
     revenue_lost       |-> revenue_lost,
     sequence_number    |-> sequence_number,
     in_ad_break        |-> in_ad_break,
     ad_break_remaining |-> ad_break_remaining,
     now                |-> now,
     rng_pos            |-> rng_pos,
     health_metric      |-> health_metric,
     alert_placeholder  |-> alert_placeholder,
     drop_offs          |-> drop_offs]

\* the script started with CHAOS_MODE = chaos
InitConfigured(skew, chaos) ==
    LET n == NewSession(0)
    IN  /\ rng_tape \in [1..TapeLen -> Raw]
        /\ chaos_mode = chaos
        /\ drop_offs = n.drop_offs
        /\ df2 = n.df2
        /\ viewers = n.viewers
        /\ revenue_lost = n.revenue_lost
        /\ sequence_number = n.sequence_number
        /\ in_ad_break = n.in_ad_break
        /\ ad_break_remaining = n.ad_break_remaining
        /\ now = n.now
        /\ rng_pos = n.rng_pos
        /\ health_metric = n.health_metric
        /\ alert_placeholder = n.alert_placeholder
        /\ other = NewSession(skew)

\* the script as written: CHAOS_MODE = True
InitWith(skew) == InitConfigured(skew, TRUE)

Init == InitWith(0)

Iterate ==
    \E n \in {LoopBody(Session)} :
        /\ df2' = n.df2
        /\ viewers' = n.viewers
        /\ revenue_lost' = n.revenue_lost
        /\ sequence_number' = n.sequence_number
        /\ in_ad_break' = n.in_ad_break
        /\ ad_break_remaining' = n.ad_break_remaining
        /\ now' = n.now
        /\ rng_pos' = n.rng_pos
        /\ health_metric' = n.health_metric
        /\ alert_placeholder' = n.alert_placeholder
        /\ drop_offs' = n.drop_offs
        /\ UNCHANGED <<rng_tape, other, chaos_mode>>

\* one iteration of the loop of generate_stream_data
Tick ==
    /\ sequence_number < MaxTicks
    /\ Iterate

Next == Tick

Spec == Init /\ [][Next]_vars

----------------------------------------------------------------------------
(* Two independent runs of the program on the same seed: the sessions      *)
(* share rng_tape and both start at the head of the stream; the second is  *)
(* started up to MaxSkew seconds of wall-clock time after the first.       *)

InitPair == \E skew \in 0..MaxSkew : InitWith(skew)

TickFirst ==
    /\ sequence_number < MaxPairTicks
    /\ Iterate

TickSecond ==
    /\ other.sequence_number < MaxPairTicks
    /\ other' = LoopBody(other)
    /\ UNCHANGED <<df2, viewers, revenue_lost, sequence_number, in_ad_break,
                   ad_break_remaining, now, rng_pos, health_metric,
                   alert_placeholder, rng_tape, chaos_mode, drop_offs>>

NextPair == TickFirst \/ TickSecond

SpecPair == InitPair /\ [][NextPair]_vars

----------------------------------------------------------------------------
(* The script under either setting of CHAOS_MODE                           *)

InitChaos == \E chaos \in BOOLEAN : InitConfigured(0, chaos)

TickChaos ==
    /\ sequence_number < MaxChaosTicks
    /\ Iterate

NextChaos == TickChaos

SpecChaos == InitChaos /\ [][NextChaos]_vars

----------------------------------------------------------------------------
(* Properties                                                               *)

LastRow(df) == df[Len(df)]

Min(a, b) == IF a <= b THEN a ELSE b

RowsOf(df) == {df[i] : i \in 1..Len(df)}

\* the fields of the emitted packet held by a row of the window
PacketOf(row) ==
    [stream_id      |-> row.stream_id,
     timestamp      |-> row.timestamp,
     seq_id         |-> row.seq_id,
     event          |-> row.event,
     scte35_payload |-> row.scte35_payload,
     latency_ms     |-> row.latency_ms]

\* C1: after N ticks the window holds exactly the min(N, 50) most recently
\* ingested events, oldest first: its length is min(N, 50) and its i-th row
\* is the event of tick N - length + i (ticks counted from 1, seq_id from 0).
WindowHoldsMostRecent ==
    /\ Len(df2) = Min(sequence_number, 50)
    /\ Len(df2) <= 50
    /\ \A i \in 1..Len(df2) :
           df2[i].seq_id = sequence_number - Len(df2) + i - 1

\* the window is full and the events of the first ticks have been evicted
WindowEvicted ==
    /\ sequence_number > 50
    /\ Len(df2) = 50
    /\ df2[1].seq_id = sequence_number - 50
    /\ df2[1].seq_id > 0

\* C2: the first emitted event has seq_id 0 and every later event has the
\* seq_id of the event before it plus one, whatever branch the tick takes.
SeqIdsConsecutive ==
    [][df2' # df2 =>
          /\ Len(df2') > 0
          /\ LastRow(df2').seq_id =
                 IF df2 = <<>> THEN 0 ELSE LastRow(df2).seq_id + 1]_vars

\* a run that has emitted every event kind and a buffering event
AllBranchesTaken ==
    /\ \A k \in EventKinds : \E r \in RowsOf(df2) : r.event = k
    /\ \E r \in RowsOf(df2) : r.ad_buffering
    /\ \E r \in RowsOf(df2) : r.event = "ad_playing" /\ ~r.ad_buffering
    /\ df2[1].seq_id = 0

AllowedSuccessors ==
    {<<"content_playing", "content_playing">>,
     <<"content_playing", "scte35_trigger">>,
     <<"scte35_trigger", "ad_playing">>,
     <<"ad_playing", "ad_playing">>,
     <<"ad_playing", "ad_complete">>,
     <<"ad_complete", "content_playing">>,
     <<"ad_complete", "scte35_trigger">>}

SuccessorsIn(df) == {<<df[i].event, df[i + 1].event>> : i \in 1..(Len(df) - 1)}

\* C3: consecutive events follow only the seven listed successor pairs, and
\* the first event of a run is content_playing or scte35_trigger.
KindTransitions ==
    /\ SuccessorsIn(df2) \subseteq AllowedSuccessors
    /\ (df2 # <<>> /\ df2[1].seq_id = 0) =>
           df2[1].event \in {"content_playing", "scte35_trigger"}

\* a run through content, a whole ad break and content again: every
\* successor pair but ad_complete -> scte35_trigger occurs in the window
SuccessorsSeen ==
    SuccessorsIn(df2) =
        AllowedSuccessors \ {<<"ad_complete", "scte35_trigger">>}

\* C4: after a scte35_trigger the next 14 events are ad_playing and the 15th
\* is ad_complete, emitted on the tick the counter reaches zero and the
\* simulator returns to Content; an ad_complete has exactly one trigger,
\* 15 events before it.
AdBreakEnds ==
    /\ \A i \in 1..Len(df2) : df2[i].event = "scte35_trigger" =>
           \A k \in 1..15 : i + k <= Len(df2) =>
               df2[i + k].event = IF k <= 14 THEN "ad_playing"
                                  ELSE "ad_complete"
    /\ \A j \in 16..Len(df2) : df2[j].event = "ad_complete" =>
           df2[j - 15].event = "scte35_trigger"
    /\ df2 # <<>> =>
           /\ LastRow(df2).event = "ad_complete" =>
                  ~in_ad_break /\ ad_break_remaining = 0
           /\ LastRow(df2).event \in {"scte35_trigger", "ad_playing"} =>
                  in_ad_break /\ ad_break_remaining > 0
           /\ LastRow(df2).event = "content_playing" => ~in_ad_break

\* an ad break that ran from its trigger to its ad_complete, and after
AdBreakCompleted ==
    \E i \in 1..Len(df2) :
        /\ df2[i].event = "scte35_trigger"
        /\ i + 16 <= Len(df2)
        /\ df2[i + 15].event = "ad_complete"

\* C5: a row carries a payload other than "null" only if its event kind is
\* scte35_trigger.
PayloadOnlyOnTrigger ==
    \A r \in RowsOf(df2) :
        r.scte35_payload # NullText => r.event = "scte35_trigger"

\* a trigger that carried a payload, followed by ad events and content
PayloadThenNull ==
    \E i \in 1..Len(df2) :
        /\ df2[i].event = "scte35_trigger"
        /\ df2[i].scte35_payload # NullText
        /\ Len(df2[i].scte35_payload) = 14
        /\ i + 16 <= Len(df2)
        /\ df2[i + 1].scte35_payload = NullText
        /\ df2[i + 16].event = "content_playing"

ChurnOnBuffering ==
    [][(df2' # df2 /\ LastRow(df2').ad_buffering) =>
          \E c \in 50..150 :
              /\ viewers' = viewers - c
              /\ revenue_lost' = revenue_lost + 5 * c
              /\ alert_placeholder'.drop_off = c]_vars

\* a buffering tick has just drawn the largest churn count
ChurnApplied ==
    /\ df2 # <<>>
    /\ LastRow(df2).ad_buffering
    /\ alert_placeholder.drop_off = 150
    /\ revenue_lost >= 750

\* C8: revenue_lost starts at 0 and never decreases from one tick to the
\* next.
RevenueMonotone ==
    /\ revenue_lost = 0
    /\ [][revenue_lost' >= revenue_lost]_vars

\* rows have been evicted, among them a buffering row (the rows left in the
\* window cannot account for the revenue lost), and viewers have recovered
RevenueKeptAfterEviction ==
    /\ sequence_number > 50
    /\ revenue_lost >
           750 * Cardinality({i \in 1..Len(df2) : df2[i].ad_buffering})
    /\ viewers > 10000 - revenue_lost \div 5

\* C9: after a tick the alert is error if the event is flagged buffering,
\* else warning if viewers (after the update) is below 9000, else success.
AlertDerivation ==
    df2 # <<>> =>
        alert_placeholder.level =
            IF LastRow(df2).ad_buffering THEN "error"
            ELSE IF viewers < 9000 THEN "warning"
            ELSE "success"

\* a buffering tick raises the error alert while viewers is still >= 9000
CriticalAboveLowWater ==
    /\ df2 # <<>>
    /\ LastRow(df2).ad_buffering
    /\ viewers >= 9000
    /\ alert_placeholder.level = "error"

\* C10: two runs on the same seed that have made the same number of ticks
\* have emitted identical event sequences, every field included.
Determinism ==
    sequence_number = other.sequence_number =>
        [i \in 1..Len(df2) |-> PacketOf(df2[i])] =
            [i \in 1..Len(other.df2) |-> PacketOf(other.df2[i])]

\* C11: every ingested event is stored with a signal_failure flag, true iff
\* the event is a scte35_trigger whose payload is absent.
SignalFailureFlag ==
    \A r \in RowsOf(df2) :
        /\ "signal_failure" \in DOMAIN r
        /\ r.signal_failure <=>
               (r.event = "scte35_trigger" /\ r.scte35_payload = NullText)

\* C12: every ingested event is stored with a lost_packet flag, true iff the
\* event ingested before it has another seq_id than this one's less one,
\* and false on the first event of the session.
LostPacketFlag ==
    \A i \in 1..Len(df2) :
        /\ "lost_packet" \in DOMAIN df2[i]
        /\ df2[i].lost_packet <=>
               (i > 1 /\ df2[i - 1].seq_id + 1 # df2[i].seq_id)

\* C13: on a tick whose event is not flagged buffering revenue_lost is
\* unchanged; viewers below 10000 grows by an increment in 5..20, viewers
\* at or above 10000 is unchanged.
RecoveryOnly ==
    [][(df2' # df2 /\ ~LastRow(df2').ad_buffering) =>
          /\ revenue_lost' = revenue_lost
          /\ viewers < 10000 => (viewers' - viewers) \in 5..20
          /\ viewers >= 10000 => viewers' = viewers
          /\ viewers' >= viewers]_vars

\* a tick that was not flagged buffering has just added a recovery increment
RecoveryApplied ==
    /\ df2 # <<>>
    /\ ~LastRow(df2).ad_buffering
    /\ revenue_lost > 0
    /\ viewers < 10000
    /\ alert_placeholder.level = "success"

\* C14: the indicator shows the ad break exactly when the event kind is
\* ad_playing, scte35_trigger or ad_complete, and content otherwise.
HealthIndicatorFamily ==
    df2 # <<>> =>
        health_metric =
            IF LastRow(df2).event \in
                   {"ad_playing", "scte35_trigger", "ad_complete"}
            THEN "Ad Break Active"
            ELSE "Content Playing"

\* the penalty of 2000 ms was added to a row's latency: no sample of
\* random.gauss alone reaches 2000.00
Penalised(row) == row.latency_ms >= CHAOS_PENALTY \div 10

\* a trigger whose payload was dropped
SignalLost(row) ==
    row.event = "scte35_trigger" /\ row.scte35_payload = NullText

\* C15: with CHAOS_MODE off every scte35_trigger carries a payload and the
\* 2000 ms penalty is never added.
ChaosGating ==
    ~chaos_mode =>
        \A r \in RowsOf(df2) : ~SignalLost(r) /\ ~Penalised(r)

\* with CHAOS_MODE off a trigger has been emitted and the break is playing
ChaosOffBreak ==
    /\ ~chaos_mode
    /\ \E r \in RowsOf(df2) : r.event = "scte35_trigger"
    /\ Cardinality({r \in RowsOf(df2) : r.event = "ad_playing"}) >= 3

\* C16: the penalty is added only under CHAOS_MODE to an ad_playing or an
\* ad_complete event, and never to an event whose signal was lost.
PenaltyOnlyInAdBreak ==
    \A r \in RowsOf(df2) :
        /\ Penalised(r) =>
               chaos_mode /\ r.event \in {"ad_playing", "ad_complete"}
        /\ ~(SignalLost(r) /\ Penalised(r))

\* under CHAOS_MODE a break opened by a lost signal has a penalised
\* ad_playing event and a penalised ad_complete event
PenalisedBreak ==
    /\ chaos_mode
    /\ \E r \in RowsOf(df2) : SignalLost(r)
    /\ \E r \in RowsOf(df2) : Penalised(r) /\ r.event = "ad_playing"
    /\ \E r \in RowsOf(df2) : Penalised(r) /\ r.event = "ad_complete"

\* C17: a stored row never changes: after a tick the rows before the new one
\* are the rows stored before, in order, all of them or all but the oldest.
StoredRowsImmutable ==
    [][df2' # df2 =>
          LET kept == SubSeq(df2', 1, Len(df2') - 1)
          IN  /\ Len(df2') >= 1
              /\ \/ kept = df2
                 \/ df2 # <<>> /\ kept = Tail(df2)]_vars

\* rows have been evicted and the oldest survivor is a flagged row
FlaggedSurvivor ==
    /\ Len(df2) = WINDOW_CAPACITY
    /\ df2[1].seq_id > 0
    /\ df2[1].ad_buffering
    /\ LastRow(df2).event = "content_playing"

\* C18: viewers never exceeds 10019.
ViewersCeiling == viewers <= BASELINE_VIEWERS + RECOVER_MAX - 1

\* recovery has overshot the baseline
ViewersAboveBaseline == viewers > BASELINE_VIEWERS

RECURSIVE Sum(_)
\* the sum of a sequence of numbers
Sum(seq) == IF seq = <<>> THEN 0 ELSE Head(seq) + Sum(Tail(seq))

\* C19: revenue_lost is 0.05 times the sum of every drop_off drawn since the
\* start: 0 before the first buffering event, between 2.50 k and 7.50 k after
\* k of them, whatever was recovered or evicted since.
RevenueIsChurnSum ==
    LET k == Len(drop_offs)
    IN  /\ revenue_lost = REVENUE_PER_VIEWER * Sum(drop_offs)
        /\ k = 0 => revenue_lost = 0
        /\ revenue_lost >= k * DROP_MIN * REVENUE_PER_VIEWER
        /\ revenue_lost <= k * DROP_MAX * REVENUE_PER_VIEWER

\* unequal drop_offs were drawn, a flagged row has been evicted since and
\* viewers has recovered since
ChurnSummedAcrossRecovery ==
    /\ Len(drop_offs) >= 2
    /\ drop_offs[1] # drop_offs[2]
    /\ Cardinality({r \in RowsOf(df2) : r.ad_buffering}) < Len(drop_offs)
    /\ revenue_lost > REVENUE_PER_VIEWER * (BASELINE_VIEWERS - viewers)

\* C20: in_ad_break holds exactly when ad_break_remaining is positive;
\* ad_break_remaining is an even number in 0..30 and a tick that starts in
\* content never lowers it.
BreakCountdown ==
    [][/\ in_ad_break' <=> ad_break_remaining' > 0
       /\ in_ad_break <=> ad_break_remaining > 0
       /\ ad_break_remaining' \in
              {SEGMENT_DURATION * k : k \in 0..(AD_BREAK_DURATION \div SEGMENT_DURATION)}
       /\ ~in_ad_break => ad_break_remaining' >= ad_break_remaining]_vars

\* the last ad_playing tick of a break
BreakAlmostOver ==
    /\ in_ad_break
    /\ ad_break_remaining = SEGMENT_DURATION
    /\ df2 # <<>>
    /\ LastRow(df2).event = "ad_playing"

=============================================================================
